---- MODULE Spec2Model ----
(***************************************************************************)
(* Model of dependency_detective.py: the import scan (extract_imports,     *)
(* resolve_package, scan_directory), install_dependencies,                 *)
(* generate_requirements_file, run_project, run_in_temp_venv and the mode  *)
(* dispatch of main().                                                     *)
(*                                                                         *)
(* Module and package names are sequences of one-character strings, so     *)
(* that str.split('.'), str.lower() and sorted() are computed and not      *)
(* assumed.  File names and directory names are only ever compared for     *)
(* equality and are plain strings.                                         *)
(*                                                                         *)
(* A subprocess.check_call has two outcomes: it returns, or it raises      *)
(* CalledProcessError.  main() is modelled from the scan on (line 404):    *)
(* the command line has been accepted and the configuration is loaded.     *)
(***************************************************************************)
EXTENDS Integers, Sequences, FiniteSets, TLC

\* ------------------------------------------------------------------ bounds
\* Most Python files in the scanned tree.
MaxFiles == 2
\* Most packages pip reports as installed.
MaxInstalled == 2

\* ------------------------------------------------------------------- names
\* Python's None where a string is expected: no string of characters equals it.
None == <<"None">>

n_os       == <<"o", "s">>
n_json     == <<"j", "s", "o", "n">>
n_PIL      == <<"P", "I", "L">>
n_PIL_sub  == <<"P", "I", "L", ".", "I">>
n_Pillow   == <<"P", "i", "l", "l", "o", "w">>
n_pillow   == <<"p", "i", "l", "l", "o", "w">>
n_yaml     == <<"y", "a", "m", "l">>
n_PyYAML   == <<"P", "y", "Y", "A", "M", "L">>
n_pyyaml   == <<"p", "y", "y", "a", "m", "l">>
n_rich     == <<"r", "i", "c", "h">>
n_rich_sub == <<"r", "i", "c", "h", ".", "c">>
n_utils    == <<"u", "t", "i", "l", "s">>
n_SoCo     == <<"S", "o", "C", "o">>
n_soco     == <<"s", "o", "c", "o">>
n_empty    == <<>>

\* str.lower() on the characters the names use.
LowerChar(c) ==
    CASE c = "P" -> "p" [] c = "I" -> "i" [] c = "L" -> "l" [] c = "Y" -> "y"
      [] c = "A" -> "a" [] c = "M" -> "m" [] c = "S" -> "s" [] c = "C" -> "c"
      [] OTHER -> c

Lower(s) == [i \in DOMAIN s |-> LowerChar(s[i])]

\* ord() of the characters the names use.
Ord(c) ==
    CASE c = "." -> 46
      [] c = "A" -> 65 [] c = "C" -> 67 [] c = "I" -> 73 [] c = "L" -> 76
      [] c = "M" -> 77 [] c = "P" -> 80 [] c = "S" -> 83
      [] c = "Y" -> 89
      [] c = "a" -> 97 [] c = "c" -> 99 [] c = "h" -> 104
      [] c = "i" -> 105 [] c = "j" -> 106 [] c = "l" -> 108 [] c = "m" -> 109
      [] c = "n" -> 110 [] c = "o" -> 111 [] c = "p" -> 112 [] c = "r" -> 114
      [] c = "s" -> 115 [] c = "t" -> 116 [] c = "u" -> 117 [] c = "w" -> 119
      [] c = "y" -> 121

\* s < t for Python strings: lexicographic by code point.
RECURSIVE StrLess(_, _)
StrLess(s, t) ==
    IF t = <<>> THEN FALSE
    ELSE IF s = <<>> THEN TRUE
    ELSE IF Ord(Head(s)) # Ord(Head(t)) THEN Ord(Head(s)) < Ord(Head(t))
    ELSE StrLess(Tail(s), Tail(t))

\* sorted(list(S)) for a set S of strings.
RECURSIVE Sorted(_)
Sorted(S) ==
    IF S = {} THEN <<>>
    ELSE LET least == CHOOSE x \in S : \A y \in S \ {x} : StrLess(x, y)
         IN  <<least>> \o Sorted(S \ {least})

\* s.split('.')[0]: the characters before the first dot.
RECURSIVE SplitFirst(_)
SplitFirst(s) ==
    IF s = <<>> \/ Head(s) = "." THEN <<>>
    ELSE <<Head(s)>> \o SplitFirst(Tail(s))

\* dict.get(key, default) on a dict modelled as a function.
DictGet(d, key, default) == IF key \in DOMAIN d THEN d[key] ELSE default

\* Python truthiness of an Optional[str].
Truthy(s) == s # None /\ s # <<>>

Range(seq) == {seq[i] : i \in DOMAIN seq}

\* The orderings in which a set can be iterated.
Orders(S) == {q \in [1 .. Cardinality(S) -> S] : Range(q) = S}

\* --------------------------------------------------------- program tables
EXCLUDED_DIRS == {".pytest_cache", "__pycache__", "venv", ".venv", "virtualenv", "dist", "build"}

\* The entries of PACKAGE_MAPPINGS the modelled projects import.
PACKAGE_MAPPINGS == (n_PIL :> n_Pillow) @@ (n_yaml :> n_PyYAML)

\* load_blacklist(): the standard-library modules the modelled projects import.
load_blacklist == {n_os, n_json}

script_name == "dependency_detective.py"

v1 == <<"1">>
v2 == <<"2">>

\* ------------------------------------------------------------ project files
\* A parsed file: its name, the components of its path, whether ast.parse
\* accepts it, and the nodes ast.walk yields.
ImportNode(names) == [type |-> "Import", names |-> names, level |-> 0, module |-> None]
ImportFromNode(level, module) == [type |-> "ImportFrom", names |-> {}, level |-> level, module |-> module]
OtherNode == [type |-> "Expr", names |-> {}, level |-> 0, module |-> None]

PyFile(name, parts, ok, tree) == [name |-> name, parts |-> parts, syntax_ok |-> ok, tree |-> tree]

F_main   == PyFile("main.py", <<"proj", "main.py">>, TRUE,
                   {ImportNode({n_os, n_PIL_sub}), ImportFromNode(0, n_yaml), OtherNode})
F_app    == PyFile("app.py", <<"proj", "pkg", "app.py">>, TRUE,
                   {ImportNode({n_SoCo}), ImportFromNode(0, n_utils),
                    ImportFromNode(1, n_rich), ImportFromNode(1, None)})
F_cli    == PyFile("cli.py", <<"proj", "legacy", "cli.py">>, TRUE,
                   {ImportNode({n_rich_sub, n_json})})
F_venv   == PyFile("lib.py", <<"proj", "venv", "lib.py">>, TRUE,
                   {ImportNode({n_rich})})
F_self   == PyFile("dependency_detective.py", <<"proj", "dependency_detective.py">>, TRUE,
                   {ImportNode({n_rich, n_json})})
F_broken == PyFile("broken.py", <<"proj", "broken.py">>, FALSE,
                   {ImportNode({n_rich})})

AllFiles == {F_main, F_app, F_cli, F_venv, F_self, F_broken}

\* ------------------------------------------------------------- the import scan
extract_imports(file) ==
    IF ~file.syntax_ok THEN {}
    ELSE UNION {
        IF node.type = "Import"
            THEN {SplitFirst(name) : name \in node.names}
        ELSE IF node.type = "ImportFrom" /\ node.level = 0 /\ Truthy(node.module)
            THEN {SplitFirst(node.module)}
        ELSE {} : node \in file.tree}

\* resolve_package without its standard-library check.
resolve_package_NoBlacklist(module, local, blacklist, mappings) ==
    IF module \in local THEN None
    ELSE DictGet(mappings, module, module)

resolve_package(module, local, blacklist, mappings) ==
    IF module \in local THEN None
    ELSE IF module \in blacklist THEN None
    ELSE DictGet(mappings, module, module)

\* The packages one analysed file adds to the dependencies.
FilePackages(file, blacklist, local, mappings) ==
    {package \in {resolve_package(module, local, blacklist, mappings) :
                      module \in extract_imports(file)} : Truthy(package)}

\* The loop over directory.rglob('*.py'); todo is the files still to visit.
RECURSIVE ScanLoop(_, _, _, _, _, _, _)
ScanLoop(todo, dependencies, blacklist, local, script, excluded, mappings) ==
    IF todo = {} THEN dependencies
    ELSE LET file_path == CHOOSE f \in todo : TRUE
             rest == todo \ {file_path}
         IN  IF file_path.name = script
                 THEN ScanLoop(rest, dependencies, blacklist, local, script, excluded, mappings)
             ELSE IF \E e \in excluded : e \in Range(file_path.parts)
                 THEN ScanLoop(rest, dependencies, blacklist, local, script, excluded, mappings)
             ELSE ScanLoop(rest,
                           dependencies \cup FilePackages(file_path, blacklist, local, mappings),
                           blacklist, local, script, excluded, mappings)

scan_directory(directory, blacklist, local, script, excluded, mappings) ==
    ScanLoop(directory, {}, blacklist, local, script, excluded, mappings)

\* get_installed_packages: the pip list keyed by lower-cased name.
get_installed_packages(listing) ==
    [key \in {Lower(pkg.name) : pkg \in listing} |->
        (CHOOSE pkg \in listing : Lower(pkg.name) = key).version]

\* ------------------------------------------------------------------- state
VARIABLES
    args,                \* the parsed mode flags
    files,               \* the *.py files under the working directory
    pip_listing,         \* what `pip list` reports for the running interpreter
    local_imports,       \* find_local_imports(project_root)
    excluded_dirs,       \* EXCLUDED_DIRS plus configured and --exclude-dir names
    package_mappings,    \* PACKAGE_MAPPINGS plus --map entries
    project_file_exists, \* the entry file is on disk
    venv_dir_exists,     \* ./venv is on disk
    temp_dir_exists,     \* the TemporaryDirectory is on disk
    pc,                  \* the position of main()
    required_deps,
    installed_deps,
    missing_deps,
    failed_installs,
    idx,                 \* install_dependencies: position in missing_deps
    todo,                \* the dependencies a venv loop has still to install
    pending_status,      \* the exit status a raised SystemExit carries
    exit_status,         \* -1 while main() runs
    pip_log,             \* every `pip install` made: package, interpreter, outcome
    venv_log,            \* every `python -m venv` made: target, outcome
    run_log,             \* every run of the project file: interpreter, outcome
    requirements_txt,    \* the lines last written to requirements.txt
    requirements_written,
    gen_calls,           \* calls of generate_requirements_file
    prompts,             \* calls of input()
    temp_dirs_created

inputs == <<args, files, pip_listing, local_imports, excluded_dirs, package_mappings,
            project_file_exists>>
disk == <<venv_dir_exists, temp_dir_exists, requirements_txt, requirements_written>>
locals == <<required_deps, installed_deps, missing_deps, failed_installs, idx, todo,
            pending_status>>
logs == <<pip_log, venv_log, run_log, gen_calls, prompts, temp_dirs_created>>
vars == <<inputs, disk, locals, logs, pc, exit_status>>

Flags == [generate_requirements : BOOLEAN, venv : BOOLEAN, temp_venv : BOOLEAN,
          yes : BOOLEAN, dry_run : BOOLEAN]

Pkg(name, version) == [name |-> name, version |-> version]
AllInstalled == {Pkg(n_Pillow, v1), Pkg(n_PyYAML, v1), Pkg(n_rich, v1), Pkg(n_soco, v1)}

\* The --map arguments tried: none, the help text's SoCo:soco, and "SoCo:".
CustomMaps == {<<>>, (n_SoCo :> n_soco), (n_SoCo :> n_empty)}

AtMost(S, n) == {x \in SUBSET S : Cardinality(x) <= n}

Start ==
    /\ pc = "start"
    /\ required_deps = {}
    /\ installed_deps = <<>>
    /\ missing_deps = <<>>
    /\ failed_installs = <<>>
    /\ idx = 1
    /\ todo = <<>>
    /\ pending_status = 0
    /\ exit_status = -1
    /\ pip_log = <<>>
    /\ venv_log = <<>>
    /\ run_log = <<>>
    /\ requirements_txt = <<>>
    /\ requirements_written = FALSE
    /\ gen_calls = 0
    /\ prompts = 0
    /\ temp_dirs_created = 0
    /\ temp_dir_exists = FALSE

\* Every combination of flags, on projects scanned with the default settings.
Init ==
    /\ args \in Flags
    /\ files \in AtMost(AllFiles, MaxFiles)
    /\ pip_listing \in AtMost(AllInstalled, MaxInstalled)
    /\ local_imports = {n_utils}
    /\ excluded_dirs = EXCLUDED_DIRS
    /\ package_mappings = PACKAGE_MAPPINGS
    /\ project_file_exists \in BOOLEAN
    /\ venv_dir_exists \in BOOLEAN
    /\ Start

\* Every setting the scan reads, with the flags fixed.
ScanInit ==
    /\ args = [generate_requirements |-> FALSE, venv |-> FALSE, temp_venv |-> FALSE,
               yes |-> FALSE, dry_run |-> TRUE]
    /\ files \in AtMost(AllFiles, MaxFiles + 1)
    /\ pip_listing = {}
    /\ local_imports \in {{}, {n_utils}}
    /\ excluded_dirs \in {EXCLUDED_DIRS, EXCLUDED_DIRS \cup {"legacy"}}
    /\ \E custom \in CustomMaps : package_mappings = custom @@ PACKAGE_MAPPINGS
    /\ project_file_exists = TRUE
    /\ venv_dir_exists = FALSE
    /\ Start

Exit(status) ==
    /\ pc' = "exited"
    /\ exit_status' = status

PipInstall(dep, python, ok) == [dep |-> dep, python |-> python, ok |-> ok]

\* ----------------------------------------------------------------- actions
\* main, lines 404-405.
Scan ==
    /\ pc = "start"
    /\ required_deps' = scan_directory(files, load_blacklist, local_imports, script_name,
                                       excluded_dirs, package_mappings)
    /\ installed_deps' = get_installed_packages(pip_listing)
    /\ pc' = "dispatch"
    /\ UNCHANGED <<inputs, disk, logs, exit_status, missing_deps, failed_installs, idx,
                   todo, pending_status>>

\* The lines generate_requirements_file writes; latest is what PyPI answers.
RequirementLines(dependencies, installed, latest) ==
    LET sorted_deps == Sorted(dependencies)
        Version(dep) ==
            LET version == DictGet(installed, Lower(dep), None)
            IN  IF ~Truthy(version) THEN latest[dep] ELSE version
    IN  [i \in DOMAIN sorted_deps |->
            IF Truthy(Version(sorted_deps[i]))
                THEN sorted_deps[i] \o <<"=", "=">> \o Version(sorted_deps[i])
                ELSE sorted_deps[i]]

\* main, lines 407-409, with generate_requirements_file.
GenerateRequirements ==
    /\ pc = "dispatch"
    /\ args.generate_requirements
    /\ gen_calls' = gen_calls + 1
    /\ \E io_ok \in BOOLEAN, latest \in [required_deps -> {v2, None}] :
          IF io_ok
              THEN /\ requirements_txt' = RequirementLines(required_deps, installed_deps, latest)
                   /\ requirements_written' = TRUE
              ELSE UNCHANGED <<requirements_txt, requirements_written>>
    /\ Exit(0)
    /\ UNCHANGED <<inputs, locals, venv_dir_exists, temp_dir_exists,
                   pip_log, venv_log, run_log, prompts, temp_dirs_created>>

\* The --temp-venv branch tested ahead of the --generate-requirements one.
TempDirEnter_BeforeGenerate ==
    /\ pc = "dispatch"
    /\ args.temp_venv
    /\ temp_dir_exists' = TRUE
    /\ temp_dirs_created' = temp_dirs_created + 1
    /\ pc' = "temp_venv"
    /\ UNCHANGED <<inputs, locals, venv_dir_exists, requirements_txt, requirements_written,
                   pip_log, venv_log, run_log, gen_calls, prompts, exit_status>>

\* main, lines 411-412, and run_in_temp_venv, line 281: the TemporaryDirectory
\* is entered.
TempDirEnter ==
    /\ pc = "dispatch"
    /\ ~args.generate_requirements
    /\ args.temp_venv
    /\ temp_dir_exists' = TRUE
    /\ temp_dirs_created' = temp_dirs_created + 1
    /\ pc' = "temp_venv"
    /\ UNCHANGED <<inputs, locals, venv_dir_exists, requirements_txt, requirements_written,
                   pip_log, venv_log, run_log, gen_calls, prompts, exit_status>>

\* run_in_temp_venv, line 285; CalledProcessError leads to sys.exit(1) (294-296).
TempVenvCreate ==
    /\ pc = "temp_venv"
    /\ \E ok \in BOOLEAN :
          /\ venv_log' = Append(venv_log, [target |-> "temp", ok |-> ok])
          /\ IF ok
                 THEN /\ \E order \in Orders(required_deps) : todo' = order
                      /\ pc' = "temp_install"
                      /\ UNCHANGED pending_status
                 ELSE /\ pc' = "temp_exit"
                      /\ pending_status' = 1
                      /\ UNCHANGED todo
    /\ UNCHANGED <<inputs, disk, required_deps, installed_deps, missing_deps, failed_installs,
                   idx, pip_log, run_log, gen_calls, prompts, temp_dirs_created, exit_status>>

\* run_in_temp_venv, lines 289-290: one pass of the loop.
TempInstall ==
    /\ pc = "temp_install"
    /\ todo # <<>>
    /\ \E ok \in BOOLEAN :
          /\ pip_log' = Append(pip_log, PipInstall(Head(todo), "temp_venv", ok))
          /\ IF ok
                 THEN /\ todo' = Tail(todo)
                      /\ UNCHANGED <<pc, pending_status>>
                 ELSE /\ pc' = "temp_exit"
                      /\ pending_status' = 1
                      /\ UNCHANGED todo
    /\ UNCHANGED <<inputs, disk, required_deps, installed_deps, missing_deps, failed_installs,
                   idx, venv_log, run_log, gen_calls, prompts, temp_dirs_created, exit_status>>

\* run_in_temp_venv, line 293: the project runs in the temporary environment.
TempRun ==
    /\ pc = "temp_install"
    /\ todo = <<>>
    /\ \E ok \in BOOLEAN :
          /\ run_log' = Append(run_log, [python |-> "temp_venv", ok |-> ok])
          /\ pending_status' = IF ok THEN 0 ELSE 1
    /\ pc' = "temp_exit"
    /\ UNCHANGED <<inputs, disk, required_deps, installed_deps, missing_deps, failed_installs,
                   idx, todo, pip_log, venv_log, gen_calls, prompts, temp_dirs_created,
                   exit_status>>

\* A temporary directory that is removed only when the with block ends normally.
TempDirExit_KeptOnError ==
    /\ pc = "temp_exit"
    /\ temp_dir_exists' = (pending_status # 0)
    /\ Exit(pending_status)
    /\ UNCHANGED <<inputs, locals, logs, venv_dir_exists, requirements_txt,
                   requirements_written>>

\* The with block is left (lines 297-298 and TemporaryDirectory.__exit__), by
\* falling off its end or by the SystemExit of line 296; then main, line 413.
TempDirExit ==
    /\ pc = "temp_exit"
    /\ temp_dir_exists' = FALSE
    /\ Exit(pending_status)
    /\ UNCHANGED <<inputs, locals, logs, venv_dir_exists, requirements_txt,
                   requirements_written>>

\* main, lines 415-423: ./venv is refused if present, else created.  A failed
\* creation may leave the directory behind.
VenvCreate ==
    /\ pc = "dispatch"
    /\ ~args.generate_requirements
    /\ ~args.temp_venv
    /\ args.venv
    /\ IF venv_dir_exists
           THEN /\ Exit(1)
                /\ UNCHANGED <<venv_log, venv_dir_exists, todo>>
           ELSE \E ok \in BOOLEAN :
                   /\ venv_log' = Append(venv_log, [target |-> "./venv", ok |-> ok])
                   /\ IF ok
                          THEN /\ venv_dir_exists' = TRUE
                               /\ \E order \in Orders(required_deps) : todo' = order
                               /\ pc' = "venv_install"
                               /\ UNCHANGED exit_status
                          ELSE /\ venv_dir_exists' \in BOOLEAN
                               /\ Exit(1)
                               /\ UNCHANGED todo
    /\ UNCHANGED <<inputs, temp_dir_exists, requirements_txt, requirements_written,
                   required_deps, installed_deps, missing_deps, failed_installs, idx,
                   pending_status, pip_log, run_log, gen_calls, prompts, temp_dirs_created>>

\* A venv loop that swallows a failed installation and goes on.
VenvInstall_IgnoresFailure ==
    /\ pc = "venv_install"
    /\ todo # <<>>
    /\ \E ok \in BOOLEAN :
          pip_log' = Append(pip_log, PipInstall(Head(todo), "venv", ok))
    /\ todo' = Tail(todo)
    /\ UNCHANGED <<inputs, disk, required_deps, installed_deps, missing_deps, failed_installs,
                   idx, pending_status, venv_log, run_log, gen_calls, prompts,
                   temp_dirs_created, pc, exit_status>>

\* main, lines 426-429 and 437-439: one pass of the loop.
VenvInstall ==
    /\ pc = "venv_install"
    /\ todo # <<>>
    /\ \E ok \in BOOLEAN :
          /\ pip_log' = Append(pip_log, PipInstall(Head(todo), "venv", ok))
          /\ IF ok
                 THEN /\ todo' = Tail(todo)
                      /\ UNCHANGED <<pc, exit_status>>
                 ELSE /\ Exit(1)
                      /\ UNCHANGED todo
    /\ UNCHANGED <<inputs, disk, required_deps, installed_deps, missing_deps, failed_installs,
                   idx, pending_status, venv_log, run_log, gen_calls, prompts,
                   temp_dirs_created>>

\* main, lines 431-436 and 440.
VenvDone ==
    /\ pc = "venv_install"
    /\ todo = <<>>
    /\ Exit(0)
    /\ UNCHANGED <<inputs, disk, locals, logs>>

\* missing_deps of line 442, for one order of iterating required_deps.
MissingDeps(order, installed) ==
    SelectSeq(order, LAMBDA dep : Lower(dep) \notin DOMAIN installed)

\* main, lines 442-475: the missing dependencies, the dry run, the prompt.
Reconcile ==
    /\ pc = "dispatch"
    /\ ~args.generate_requirements
    /\ ~args.temp_venv
    /\ ~args.venv
    /\ \E order \in Orders(required_deps), answer \in {"y", "n", ""} :
          LET missing == MissingDeps(order, installed_deps)
          IN  /\ missing_deps' = missing
              /\ IF args.dry_run
                     THEN /\ Exit(0)
                          /\ UNCHANGED prompts
                 ELSE IF missing # <<>>
                     THEN LET response == IF args.yes THEN "y" ELSE answer
                          IN  /\ prompts' = IF args.yes THEN prompts ELSE prompts + 1
                              /\ IF response = "y"
                                     THEN /\ pc' = "install"
                                          /\ UNCHANGED exit_status
                                     ELSE Exit(1)
                 ELSE /\ pc' = "check_file"
                      /\ UNCHANGED <<exit_status, prompts>>
    /\ idx' = 1
    /\ failed_installs' = <<>>
    /\ UNCHANGED <<inputs, disk, required_deps, installed_deps, todo, pending_status,
                   pip_log, venv_log, run_log, gen_calls, temp_dirs_created>>

\* An install loop that gives up at the first failed installation.
InstallOne_StopsAtFailure ==
    /\ pc = "install"
    /\ idx <= Len(missing_deps)
    /\ \E ok \in BOOLEAN :
          /\ pip_log' = Append(pip_log, PipInstall(missing_deps[idx], "sys.executable", ok))
          /\ failed_installs' = IF ok THEN failed_installs
                                ELSE Append(failed_installs, missing_deps[idx])
          /\ idx' = IF ok THEN idx + 1 ELSE Len(missing_deps) + 1
    /\ UNCHANGED <<inputs, disk, required_deps, installed_deps, missing_deps, todo,
                   pending_status, venv_log, run_log, gen_calls, prompts, temp_dirs_created,
                   pc, exit_status>>

\* install_dependencies, lines 231-239: one pass of the loop.
InstallOne ==
    /\ pc = "install"
    /\ idx <= Len(missing_deps)
    /\ \E ok \in BOOLEAN :
          /\ pip_log' = Append(pip_log, PipInstall(missing_deps[idx], "sys.executable", ok))
          /\ failed_installs' = IF ok THEN failed_installs
                                ELSE Append(failed_installs, missing_deps[idx])
    /\ idx' = idx + 1
    /\ UNCHANGED <<inputs, disk, required_deps, installed_deps, missing_deps, todo,
                   pending_status, venv_log, run_log, gen_calls, prompts, temp_dirs_created,
                   pc, exit_status>>

\* install_dependencies returns failed_installs (line 241).
InstallReturn ==
    /\ pc = "install"
    /\ idx > Len(missing_deps)
    /\ pc' = "install_returned"
    /\ UNCHANGED <<inputs, disk, locals, logs, exit_status>>

\* A main that goes on to the project whatever install_dependencies returned.
AfterInstall_IgnoresFailures ==
    /\ pc = "install_returned"
    /\ pc' = "check_file"
    /\ UNCHANGED <<inputs, disk, locals, logs, exit_status>>

\* main, lines 464-470: what install_dependencies returned decides.
AfterInstall ==
    /\ pc = "install_returned"
    /\ IF failed_installs = <<>>
           THEN /\ pc' = "check_file"
                /\ UNCHANGED exit_status
           ELSE Exit(1)
    /\ UNCHANGED <<inputs, disk, locals, logs>>

\* main, lines 477-479.
CheckProjectFile ==
    /\ pc = "check_file"
    /\ IF project_file_exists
           THEN /\ pc' = "run"
                /\ UNCHANGED exit_status
           ELSE Exit(1)
    /\ UNCHANGED <<inputs, disk, locals, logs>>

\* main, line 481, with run_project: a failed run is sys.exit(1), else main
\* returns.
RunProject ==
    /\ pc = "run"
    /\ \E ok \in BOOLEAN :
          /\ run_log' = Append(run_log, [python |-> "sys.executable", ok |-> ok])
          /\ Exit(IF ok THEN 0 ELSE 1)
    /\ UNCHANGED <<inputs, disk, locals, pip_log, venv_log, gen_calls, prompts,
                   temp_dirs_created>>

Next ==
    \/ Scan
    \/ GenerateRequirements
    \/ TempDirEnter
    \/ TempVenvCreate
    \/ TempInstall
    \/ TempRun
    \/ TempDirExit
    \/ VenvCreate
    \/ VenvInstall
    \/ VenvDone
    \/ Reconcile
    \/ InstallOne
    \/ InstallReturn
    \/ AfterInstall
    \/ CheckProjectFile
    \/ RunProject

Spec == Init /\ [][Next]_vars

\* The scan alone, over every setting it reads.
ScanSpec == ScanInit /\ [][Scan]_vars

\* ------------------------------------------------------------------ claims
Exited == pc = "exited"
Deps(log) == [i \in DOMAIN log |-> log[i].dep]
Failed(log) == SelectSeq(log, LAMBDA e : ~e.ok)
InstalledOk(dep, python) == \E i \in DOMAIN pip_log : pip_log[i] = PipInstall(dep, python, TRUE)
CreatedOk(target) == \E i \in DOMAIN venv_log : venv_log[i] = [target |-> target, ok |-> TRUE]

\* C1 (as claimed; the code violates it): with --dry-run, whatever the other
\* flags, nothing is installed, no environment (persistent or temporary) is
\* created, requirements.txt is not written and the project file is not run.
C1_DryRunMakesNoChanges ==
    args.dry_run =>
        /\ pip_log = <<>>
        /\ venv_log = <<>>
        /\ temp_dirs_created = 0
        /\ ~requirements_written
        /\ run_log = <<>>

\* The files scan_directory analyses, and the modules they import that are
\* neither local nor blacklisted.
ScannedFiles ==
    {f \in files : f.name # script_name /\ \A i \in DOMAIN f.parts : f.parts[i] \notin excluded_dirs}
ForeignModules ==
    {m \in UNION {extract_imports(f) : f \in ScannedFiles} :
        m \notin local_imports /\ m \notin load_blacklist}
MappedPackages == {DictGet(package_mappings, m, m) : m \in ForeignModules}

\* C2 (as claimed; fails for a module mapped to the empty string): the scan
\* returns exactly the mapped names of the foreign modules of the scanned files.
C2_ScanIsMappedSet ==
    pc = "dispatch" => required_deps = MappedPackages

\* C2 (amended): the scan returns exactly the non-empty mapped names of the
\* modules, neither local nor blacklisted, that the scanned files import; a
\* local or blacklisted module resolves to None.
C2_ScanIsNonEmptyMappedSet ==
    pc = "dispatch" =>
        /\ required_deps = {p \in MappedPackages : p # <<>>}
        /\ \A f \in files : \A m \in extract_imports(f) :
              (m \in local_imports \/ m \in load_blacklist) =>
                  resolve_package(m, local_imports, load_blacklist, package_mappings) = None

C2_Witness ==
    /\ pc = "dispatch"
    /\ files = {F_app, F_cli}
    /\ n_utils \in local_imports
    /\ package_mappings[n_SoCo] = <<>>
    /\ required_deps = {n_rich}

TempMode == ~args.generate_requirements /\ args.temp_venv

\* C3: the temporary directory exists only while run_in_temp_venv is inside its
\* with block; once main has exited it is gone, on the successful path (status
\* 0: environment created, every dependency installed, project run) and on
\* every failing path (status 1).
C3_TempDirDeleted ==
    /\ temp_dir_exists => pc \in {"temp_venv", "temp_install", "temp_exit"}
    /\ (Exited /\ TempMode) =>
          /\ ~temp_dir_exists
          /\ temp_dirs_created = 1
          /\ exit_status \in {0, 1}
          /\ exit_status = 0 <=>
                /\ CreatedOk("temp")
                /\ \A d \in required_deps : InstalledOk(d, "temp_venv")
                /\ run_log = <<[python |-> "temp_venv", ok |-> TRUE]>>

C3_Witness ==
    /\ Exited
    /\ TempMode
    /\ exit_status = 1
    /\ Len(pip_log) = 2
    /\ pip_log[1].ok
    /\ ~pip_log[2].ok
    /\ ~temp_dir_exists

VenvMode == ~args.generate_requirements /\ ~args.temp_venv /\ args.venv

DefaultMode ==
    ~args.generate_requirements /\ ~args.temp_venv /\ ~args.venv /\ ~args.dry_run

AlreadyInstalled(dep) == Lower(dep) \in {Lower(pkg.name) : pkg \in pip_listing}

\* C6: in the default mode the project file is run only if it exists and every
\* discovered dependency was already installed (by lower-cased name) or was
\* installed with success by this invocation; if the project file is missing or
\* an installation failed, main exits with status 1 and the project is not run.
C6_RunAfterReconcile ==
    DefaultMode =>
        /\ (pc = "run" \/ run_log # <<>>) =>
              /\ project_file_exists
              /\ \A d \in required_deps : AlreadyInstalled(d) \/ InstalledOk(d, "sys.executable")
              /\ Failed(pip_log) = <<>>
        /\ Len(run_log) <= 1
        /\ (~project_file_exists \/ Failed(pip_log) # <<>>) =>
              /\ run_log = <<>>
              /\ Exited => exit_status = 1

C6_Witness ==
    /\ Exited
    /\ DefaultMode
    /\ required_deps = {n_Pillow, n_PyYAML}
    /\ pip_listing = {Pkg(n_Pillow, v1)}
    /\ DOMAIN installed_deps = {n_pillow}
    /\ n_pyyaml \notin DOMAIN installed_deps
    /\ Deps(pip_log) = <<n_PyYAML>>
    /\ run_log = <<[python |-> "sys.executable", ok |-> TRUE]>>
    /\ exit_status = 0

\* C7: install_dependencies attempts every element of missing_deps once, in
\* list order, going on after a failure, and returns exactly the failed ones in
\* that order.
C7_InstallAll ==
    /\ pc = "install" =>
          /\ Deps(pip_log) = SubSeq(missing_deps, 1, idx - 1)
          /\ failed_installs = Deps(Failed(pip_log))
    /\ pc = "install_returned" =>
          /\ Deps(pip_log) = missing_deps
          /\ \A i \in DOMAIN pip_log : pip_log[i].python = "sys.executable"
          /\ failed_installs = Deps(Failed(pip_log))
          /\ failed_installs = <<>> <=> \A i \in DOMAIN pip_log : pip_log[i].ok

C7_Witness ==
    /\ pc = "install_returned"
    /\ Len(missing_deps) = 2
    /\ ~pip_log[1].ok
    /\ pip_log[2].ok
    /\ failed_installs = <<missing_deps[1]>>

====
